---- MODULE Spec2Model ----
(***************************************************************************)
(* Model of the CCD reduction and differential photometry toolkit          *)
(* (src/src/data_reduction.py, src/src/photometry.py).                     *)
(*                                                                         *)
(* The library keeps no state between calls except the filesystem, so the  *)
(* state is the filesystem (disk) and the record of the call just made     *)
(* (ret): its arguments, the files it loaded and wrote, in order, and what *)
(* it returned or raised.  Init ranges over filesystems; every action is   *)
(* one whole call of a public function.  The arrays the caller holds in    *)
(* memory (mem) and the notebook widgets of src/photometryExercise.py (ui) *)
(* have specifications of their own further down.                          *)
(*                                                                         *)
(* Pixel values are numpy float64 in the code.  They are modelled as exact *)
(* rationals extended with +inf, -inf and NaN, with numpy's rules for      *)
(* division by zero and NaN propagation; rounding is not modelled.         *)
(* Images are strips of NPix pixels (one image row).                       *)
(***************************************************************************)
EXTENDS Integers, Sequences, FiniteSets, TLC

\* ------------------------------------------------------------------ bounds
NPix == 2
MaxPix == 1
MaxFiles == 3
ImgPix == 6
MaxFlux == 1
MaxPositions == 2

\* --------------------------------------------------- float64 (numpy) values
\* A value is [n, d]: d > 0 a finite rational n/d in lowest terms;
\* d = 0: n = 1 is +inf, n = -1 is -inf, n = 0 is NaN.
Abs(x) == IF x < 0 THEN -x ELSE x

Sign(x) == IF x < 0 THEN -1 ELSE IF x > 0 THEN 1 ELSE 0

RECURSIVE Gcd(_, _)
Gcd(a, b) == IF b = 0 THEN a ELSE Gcd(b, a % b)

NaN == [n |-> 0, d |-> 0]

Inf(s) == [n |-> s, d |-> 0]

LowestTerms(a, b, g) == [n |-> a \div g, d |-> b \div g]

\* the value a/b (b # 0)
Fin(a, b) ==
  IF b = 1 THEN [n |-> a, d |-> 1]
  ELSE IF b > 0 THEN LowestTerms(a, b, Gcd(Abs(a), b))
  ELSE LowestTerms(-a, -b, Gcd(Abs(a), -b))

IsNaN(x) == x.d = 0 /\ x.n = 0

IsFinite(x) == x.d > 0

\* x + y, IEEE 754: NaN propagates, inf + (-inf) is NaN
FAdd(x, y) ==
  IF IsNaN(x) \/ IsNaN(y) THEN NaN
  ELSE IF x.d = 0 /\ y.d = 0 THEN (IF x.n = y.n THEN x ELSE NaN)
  ELSE IF x.d = 0 THEN x
  ELSE IF y.d = 0 THEN y
  ELSE Fin(x.n * y.d + y.n * x.d, x.d * y.d)

FNeg(x) == [n |-> -x.n, d |-> x.d]

FSub(x, y) == FAdd(x, FNeg(y))

\* x * y: 0 * inf is NaN
FMul(x, y) ==
  IF IsNaN(x) \/ IsNaN(y) THEN NaN
  ELSE IF x.d = 0 \/ y.d = 0
    THEN (IF x.n = 0 \/ y.n = 0 THEN NaN ELSE Inf(Sign(x.n) * Sign(y.n)))
  ELSE Fin(x.n * y.n, x.d * y.d)

\* x / y as numpy divides arrays: x/0 is +-inf, 0/0 and inf/inf are NaN,
\* and nothing is raised
FDiv(x, y) ==
  IF IsNaN(x) \/ IsNaN(y) THEN NaN
  ELSE IF y.d = 0 THEN (IF x.d = 0 THEN NaN ELSE Fin(0, 1))
  ELSE IF y.n = 0 THEN (IF x.n = 0 THEN NaN ELSE Inf(Sign(x.n)))
  ELSE IF x.d = 0 THEN Inf(Sign(x.n) * Sign(y.n))
  ELSE Fin(x.n * y.d, x.d * y.n)

\* x < y on non-NaN values
FLess(x, y) ==
  IF x.d = 0 /\ y.d = 0 THEN x.n < y.n
  ELSE IF x.d = 0 THEN x.n < 0
  ELSE IF y.d = 0 THEN y.n > 0
  ELSE x.n * y.d < y.n * x.d

Range(s) == {s[i] : i \in DOMAIN s}

\* the sequence s with its elements evaluated (a list, not a comprehension)
List(s) == <<>> \o s

\* the k-th smallest (k = 1..Len) of a sequence of non-NaN values
KthSmallest(s, k) ==
  CHOOSE v \in Range(s) :
    /\ Cardinality({i \in DOMAIN s : FLess(s[i], v)}) < k
    /\ k <= Cardinality({i \in DOMAIN s : ~FLess(v, s[i])})

\* numpy.sum of a flat sequence
RECURSIVE FSum(_)
FSum(s) == IF s = <<>> THEN Fin(0, 1) ELSE FAdd(s[1], FSum(Tail(s)))

\* numpy.mean of a flat sequence
Mean(s) == FDiv(FSum(s), Fin(Len(s), 1))

\* numpy.median of a flat sequence: NaN if any element is NaN, the middle
\* element of the sorted values, or the mean of the two middle elements
Median(seq) ==
  LET s == List(seq)
      len == Len(s)
  IN IF len = 0 \/ \E i \in DOMAIN s : IsNaN(s[i]) THEN NaN
     ELSE IF len % 2 = 1 THEN KthSmallest(s, (len + 1) \div 2)
     ELSE FDiv(FAdd(KthSmallest(s, len \div 2), KthSmallest(s, len \div 2 + 1)),
               Fin(2, 1))

\* numpy.mean(frames, axis=0): a mean combine in place of the median combine
MeanAxis0(frames) ==
  List([p \in 1..NPix |-> Mean([k \in DOMAIN frames |-> frames[k][p]])])

\* numpy.median(frames, axis=0): the per-pixel median across the frames
MedianAxis0(frames) ==
  List([p \in 1..NPix |-> Median([k \in DOMAIN frames |-> frames[k][p]])])

\* array (op) array and array (op) scalar, elementwise
ArrSub(a, b) == List([p \in 1..NPix |-> FSub(a[p], b[p])])

ArrDiv(a, b) == List([p \in 1..NPix |-> FDiv(a[p], b[p])])

ArrDivScalar(a, x) == List([p \in 1..NPix |-> FDiv(a[p], x)])

\* ------------------------------------------------------------- filesystem
\* A path is [dir, name]; pathlib's Path(p).name is p.name.
PathOf(dir, name) == [dir |-> dir, name |-> name]

\* None for an optional path argument (falsy in "if output_path:")
NoPath == PathOf("", "")

\* None for output_dir (falsy in "if output_dir:")
NoDir == ""

\* None for an optional array argument; an array has NPix >= 1 pixels
None == <<>>

InPaths == {PathOf("raw", "a.fits"), PathOf("raw", "b.fits")}

OutPath == PathOf("cal", "out.fits")

OutDir == "red"

\* Path(output_dir) / f"reduced_{filename}" with filename = Path(sci_file).name
ReducedPath(output_dir, sci_file) == PathOf(output_dir, "reduced_" \o sci_file.name)

Paths == InPaths \cup {OutPath} \cup {ReducedPath(OutDir, p) : p \in InPaths}

NoFile == [exists |-> FALSE]

\* A FITS file: the primary HDU's pixel data (integer counts as the camera
\* writes them, or float64 as fits.writeto stores a float array) and header.
\* A header is the time cards it may hold (<<>> absent, <<v>> present) and
\* its HISTORY cards in order.
FitsFile(dtype, pix, header) ==
  [exists |-> TRUE, dtype |-> dtype, pix |-> pix, header |-> header]

\* fits.Header()
EmptyHeader == [JD |-> <<>>, MJD |-> <<>>, DATEOBS |-> <<>>, HISTORY |-> <<>>]

\* a HISTORY assignment that replaces the cards, as for an ordinary keyword
SetHistory(header, note) == [header EXCEPT !.HISTORY = <<note>>]

\* header['HISTORY'] = note: HISTORY is a commentary keyword, so the
\* assignment appends a card and replaces none
AddHistory(header, note) == [header EXCEPT !.HISTORY = Append(@, note)]

\* hdul[0].data.astype(float)
AsTypeFloat(file) ==
  IF file.dtype = "int" THEN List([p \in 1..NPix |-> Fin(file.pix[p], 1)])
  ELSE file.pix

\* The outcome of a call or of a part of one: status "ok" with a value, or
\* "raise" with the exception; (disk, loaded, written) are the filesystem
\* after it, the files it has read and the files it has written, in order.
Ok(value, dsk, loaded, written) ==
  [status |-> "ok", value |-> value, disk |-> dsk, loaded |-> loaded,
   written |-> written]

Raise(exc, dsk, loaded, written) ==
  [status |-> "raise", exc |-> exc, disk |-> dsk, loaded |-> loaded,
   written |-> written]

\* fits.open(filepath) raises when the file is missing
CanOpen(dsk, filepath) == filepath \in DOMAIN dsk /\ dsk[filepath].exists

load_fits(dsk, filepath) ==
  [data |-> AsTypeFloat(dsk[filepath]), header |-> dsk[filepath].header]

\* fits.writeto(output_path, data, header, overwrite=True)
WriteTo(dsk, output_path, data, header) ==
  [dsk EXCEPT ![output_path] = FitsFile("float", data, header)]

WriteRec(output_path, data, header) ==
  [path |-> output_path, data |-> data, header |-> header]

\* index of the first file of the list that cannot be opened, 0 if none
FirstUnreadable(dsk, files) ==
  IF \A i \in DOMAIN files : CanOpen(dsk, files[i]) THEN 0
  ELSE CHOOSE i \in DOMAIN files :
         /\ ~CanOpen(dsk, files[i])
         /\ \A j \in 1..(i - 1) : CanOpen(dsk, files[j])

\* ------------------------------------------------------ data_reduction.py
\* lines 56-69 of create_master_bias: load, combine, save
CombineBias(dsk, bias_files, output_path) ==
  LET bad == FirstUnreadable(dsk, bias_files)
  IN IF bad # 0
     THEN Raise("FileNotFoundError", dsk, SubSeq(bias_files, 1, bad - 1), <<>>)
     ELSE
       LET bias_data == List([k \in DOMAIN bias_files |->
                                load_fits(dsk, bias_files[k]).data])
           master_bias == MedianAxis0(bias_data)
           header == AddHistory(EmptyHeader,
                       "Master bias from " \o ToString(Len(bias_files)) \o " frames")
       IN IF output_path # NoPath
          THEN Ok(master_bias, WriteTo(dsk, output_path, master_bias, header),
                  bias_files, <<WriteRec(output_path, master_bias, header)>>)
          ELSE Ok(master_bias, dsk, bias_files, <<>>)

\* a create_master_bias that does not validate its input
create_master_bias_unchecked(dsk, bias_files, output_path) ==
  CombineBias(dsk, bias_files, output_path)

create_master_bias(dsk, bias_files, output_path) ==
  IF Len(bias_files) = 0 THEN Raise("ValueError", dsk, <<>>, <<>>)
  ELSE CombineBias(dsk, bias_files, output_path)

\* a pass that leaves the flat at its own exposure level
UnnormalizedFlat(dsk, flat_file, master_bias) ==
  LET loaded == load_fits(dsk, flat_file).data
  IN IF master_bias # None THEN ArrSub(loaded, master_bias) ELSE loaded

\* one pass of the loop of create_master_flat: the flat as loaded, less the
\* bias if one is given, divided by its own median
NormalizedFlat(dsk, flat_file, master_bias) ==
  LET loaded == load_fits(dsk, flat_file).data
      data == IF master_bias # None THEN ArrSub(loaded, master_bias) ELSE loaded
  IN ArrDivScalar(data, Median(data))

create_master_flat(dsk, flat_files, master_bias, output_path) ==
  IF Len(flat_files) = 0 THEN Raise("ValueError", dsk, <<>>, <<>>)
  ELSE
    LET bad == FirstUnreadable(dsk, flat_files)
    IN IF bad # 0
       THEN Raise("FileNotFoundError", dsk, SubSeq(flat_files, 1, bad - 1), <<>>)
       ELSE
         LET flat_data == List([k \in DOMAIN flat_files |->
                                  NormalizedFlat(dsk, flat_files[k], master_bias)])
             combined == MedianAxis0(flat_data)
             master_flat == ArrDivScalar(combined, Median(combined))
             header == AddHistory(EmptyHeader,
                         "Master flat from " \o ToString(Len(flat_files)) \o " frames")
         IN IF output_path # NoPath
            THEN Ok(master_flat, WriteTo(dsk, output_path, master_flat, header),
                    flat_files, <<WriteRec(output_path, master_flat, header)>>)
            ELSE Ok(master_flat, dsk, flat_files, <<>>)

\* a reduce_science_frame that flat-fields before it subtracts the bias
reduce_science_frame_flat_first(dsk, science_file, master_bias, master_flat, output_path) ==
  IF ~(science_file \in DOMAIN dsk /\ dsk[science_file].exists)
  THEN [status |-> "raise", exc |-> "FileNotFoundError", disk |-> dsk,
        loaded |-> <<>>, written |-> <<>>]
  ELSE
    LET file == dsk[science_file]
        data0 == IF file.dtype = "int"
                 THEN [p \in 1..NPix |-> Fin(file.pix[p], 1)] ELSE file.pix
        data1 == IF master_flat # None
                 THEN [p \in 1..NPix |-> FDiv(data0[p], master_flat[p])] ELSE data0
        data2 == IF master_bias # None
                 THEN [p \in 1..NPix |-> FSub(data1[p], master_bias[p])] ELSE data1
        hist1 == IF master_bias # None
                 THEN Append(file.header.HISTORY, "Bias subtracted")
                 ELSE file.header.HISTORY
        hist2 == IF master_flat # None THEN Append(hist1, "Flat fielded") ELSE hist1
        header == [file.header EXCEPT !.HISTORY = hist2]
    IN [status |-> "ok", value |-> [data |-> data2, header |-> header],
        disk |-> IF output_path # NoPath
                 THEN [dsk EXCEPT ![output_path] = FitsFile("float", data2, header)]
                 ELSE dsk,
        loaded |-> <<science_file>>,
        written |-> IF output_path # NoPath
                    THEN <<[path |-> output_path, data |-> data2, header |-> header]>>
                    ELSE <<>>]

\* a flat fielding step that normalises the frame by its own median when it
\* is given no master flat
FlatFieldOrNormalize(frame, master_flat) ==
  IF master_flat # None
  THEN [data |-> ArrDiv(frame.data, master_flat),
        header |-> AddHistory(frame.header, "Flat fielded")]
  ELSE [data |-> ArrDivScalar(frame.data, Median(frame.data)),
        header |-> frame.header]

\* the bias correction step of reduce_science_frame
BiasCorrect(frame, master_bias) ==
  IF master_bias # None
  THEN [data |-> ArrSub(frame.data, master_bias),
        header |-> AddHistory(frame.header, "Bias subtracted")]
  ELSE frame

\* the flat fielding step of reduce_science_frame
FlatField(frame, master_flat) ==
  IF master_flat # None
  THEN [data |-> ArrDiv(frame.data, master_flat),
        header |-> AddHistory(frame.header, "Flat fielded")]
  ELSE frame

reduce_science_frame(dsk, science_file, master_bias, master_flat, output_path) ==
  IF ~CanOpen(dsk, science_file) THEN Raise("FileNotFoundError", dsk, <<>>, <<>>)
  ELSE
    LET reduced == FlatField(BiasCorrect(load_fits(dsk, science_file), master_bias),
                             master_flat)
    IN IF output_path # NoPath
       THEN Ok(reduced, WriteTo(dsk, output_path, reduced.data, reduced.header),
               <<science_file>>,
               <<WriteRec(output_path, reduced.data, reduced.header)>>)
       ELSE Ok(reduced, dsk, <<science_file>>, <<>>)

\* the loop of batch_reduce from file i on; acc is the outcome so far, its
\* value the list reduced_files
RECURSIVE BatchLoop(_, _, _, _, _, _)
BatchLoop(acc, science_files, i, master_bias, master_flat, output_dir) ==
  IF i > Len(science_files) THEN acc
  ELSE
    LET sci_file == science_files[i]
        output_path == IF output_dir # NoDir THEN ReducedPath(output_dir, sci_file)
                       ELSE NoPath
        r == reduce_science_frame(acc.disk, sci_file, master_bias, master_flat,
                                  output_path)
    IN IF r.status = "raise"
       THEN Raise(r.exc, r.disk, acc.loaded \o r.loaded, acc.written \o r.written)
       ELSE BatchLoop(
              Ok(IF output_path # NoPath THEN Append(acc.value, output_path)
                 ELSE acc.value,
                 r.disk, acc.loaded \o r.loaded, acc.written \o r.written),
              science_files, i + 1, master_bias, master_flat, output_dir)

\* the list without the repeats of a file
RECURSIVE Unique(_)
Unique(files) ==
  IF files = <<>> THEN <<>>
  ELSE LET rest == Unique(SubSeq(files, 1, Len(files) - 1))
           last == files[Len(files)]
       IN IF last \in Range(rest) THEN rest ELSE Append(rest, last)

\* a batch_reduce that reduces each distinct file once
batch_reduce_unique(dsk, science_files, master_bias, master_flat, output_dir) ==
  BatchLoop(Ok(<<>>, dsk, <<>>, <<>>), Unique(science_files), 1, master_bias,
            master_flat, output_dir)

batch_reduce(dsk, science_files, master_bias, master_flat, output_dir) ==
  BatchLoop(Ok(<<>>, dsk, <<>>, <<>>), science_files, 1, master_bias, master_flat,
            output_dir)

\* The arrays a call holds, by name: its array arguments, which are the
\* caller's objects, and its local data.
\* np.divide(left, right, out=right): the quotient is stored in the right
\* operand as well
DivideIntoRight(arrays, target, left, right) ==
  [arrays EXCEPT ![target] = ArrDiv(arrays[left], arrays[right]),
                 ![right] = ArrDiv(arrays[left], arrays[right])]

\* target = left - right: numpy builds a new array for the difference and
\* binds the name target to it; no array that exists is written
Subtract(arrays, target, left, right) ==
  [arrays EXCEPT ![target] = ArrSub(arrays[left], arrays[right])]

\* target = left / right, likewise
Divide(arrays, target, left, right) ==
  [arrays EXCEPT ![target] = ArrDiv(arrays[left], arrays[right])]

\* the arrays after lines 142-152 of reduce_science_frame
ReduceArrays(data, master_bias, master_flat) ==
  LET loaded == [data |-> data, master_bias |-> master_bias,
                 master_flat |-> master_flat]
      debiased == IF loaded.master_bias # None
                  THEN Subtract(loaded, "data", "data", "master_bias") ELSE loaded
  IN IF debiased.master_flat # None
     THEN Divide(debiased, "data", "data", "master_flat") ELSE debiased

\* the master frames after batch_reduce has reduced files i.. of the list:
\* every call of the loop is handed the same two objects
RECURSIVE BatchArrays(_, _, _, _, _)
BatchArrays(dsk, science_files, i, master_bias, master_flat) ==
  IF i > Len(science_files) \/ ~CanOpen(dsk, science_files[i])
  THEN [master_bias |-> master_bias, master_flat |-> master_flat]
  ELSE LET after == ReduceArrays(load_fits(dsk, science_files[i]).data,
                                 master_bias, master_flat)
       IN BatchArrays(dsk, science_files, i + 1, after.master_bias,
                      after.master_flat)

\* the master bias after create_master_flat has normalised flats i.. of the
\* list (lines 93-103)
RECURSIVE FlatArrays(_, _, _, _)
FlatArrays(dsk, flat_files, i, master_bias) ==
  IF i > Len(flat_files) \/ ~CanOpen(dsk, flat_files[i]) THEN master_bias
  ELSE LET loaded == [data |-> load_fits(dsk, flat_files[i]).data,
                      master_bias |-> master_bias]
           debiased == IF master_bias # None
                       THEN Subtract(loaded, "data", "data", "master_bias")
                       ELSE loaded
       IN FlatArrays(dsk, flat_files, i + 1, debiased.master_bias)

\* ---------------------------------------------------------- photometry.py
\* photutils geometry on an image strip: a position is <<x, y>> with x the
\* 0-based pixel coordinate along the strip; pixel p (1..Len(data)) spans
\* [p - 3/2, p - 1/2]; an aperture of radius r at x covers [x - r, x + r].
Min(a, b) == IF a < b THEN a ELSE b

Max(a, b) == IF a > b THEN a ELSE b

\* the fraction of pixel p inside the aperture (method "exact")
Overlap(x, r, p) ==
  Fin(Max(0, Min(2 * x + 2 * r, 2 * p - 1) - Max(2 * x - 2 * r, 2 * p - 3)), 2)

\* photutils gives NaN for an aperture whose bounding box misses the image
OnImage(data, x, r) == 2 * x + 2 * r > -1 /\ 2 * x - 2 * r < 2 * Len(data) - 1

\* aperture_photometry(data, CircularAperture(positions, r))['aperture_sum']
ApertureSum(data, x, r) ==
  IF ~OnImage(data, x, r) THEN NaN
  ELSE FSum([p \in DOMAIN data |-> FMul(data[p], Overlap(x, r, p))])

\* aperture_photometry(data, CircularAnnulus(positions, r_in, r_out))
AnnulusSum(data, x, r_in, r_out) ==
  IF ~OnImage(data, x, r_out) THEN NaN
  ELSE FSum([p \in DOMAIN data |->
               FMul(data[p], FSub(Overlap(x, r_out, p), Overlap(x, r_in, p)))])

\* CircularAperture.area and CircularAnnulus.area: the analytic areas
ApertureArea(r) == Fin(2 * r, 1)

AnnulusArea(r_in, r_out) == Fin(2 * (r_out - r_in), 1)

\* an np.log10 under np.seterr(all='raise'), or math.log10: a flux that is
\* not positive raises
Log10RaisesOnNonPositive(flux) == ~(flux.n > 0)

\* np.log10 of a flux that is not positive: numpy's error state is left at
\* its default (warn), so a RuntimeWarning is issued and nothing is raised
Log10Raises(flux) == FALSE

\* -2.5 * np.log10(flux): finite (kept symbolic) for a positive finite flux,
\* +inf for 0, NaN for a negative one; numpy warns and raises nothing
MagInst(flux) ==
  IF IsNaN(flux) \/ (flux.d > 0 /\ flux.n < 0) \/ (flux.d = 0 /\ flux.n < 0)
  THEN [finite |-> FALSE, v |-> NaN]
  ELSE IF flux.d = 0 THEN [finite |-> FALSE, v |-> Inf(-1)]
  ELSE IF flux.n = 0 THEN [finite |-> FALSE, v |-> Inf(1)]
  ELSE [finite |-> TRUE, v |-> flux]

\* the defaults of measure_aperture_photometry
aperture_radius_default == 10

annulus_inner_default == 15

annulus_outer_default == 20

\* one row of phot_table per position
PhotRow(data, pos, aperture_radius, annulus_inner, annulus_outer) ==
  LET aperture_sum == ApertureSum(data, pos[1], aperture_radius)
      bkg_mean == FDiv(AnnulusSum(data, pos[1], annulus_inner, annulus_outer),
                       AnnulusArea(annulus_inner, annulus_outer))
      bkg_sum == FMul(bkg_mean, ApertureArea(aperture_radius))
      final_sum == FSub(aperture_sum, bkg_sum)
  IN [aperture_sum |-> aperture_sum, background |-> bkg_mean, aper_bkg |-> bkg_sum,
      aper_sum_bkgsub |-> final_sum, mag_inst |-> MagInst(final_sum)]

measure_aperture_photometry(data, positions, aperture_radius, annulus_inner, annulus_outer) ==
  List([k \in DOMAIN positions |->
          PhotRow(data, positions[k], aperture_radius, annulus_inner, annulus_outer)])

\* whether line 92 raises for some position of the list
PhotometryRaises(data, positions, aperture_radius, annulus_inner, annulus_outer) ==
  \E k \in DOMAIN positions :
    Log10Raises(PhotRow(data, positions[k], aperture_radius, annulus_inner,
                        annulus_outer).aper_sum_bkgsub)

\* astropy Time(date).jd for an ISO date string, read as [iso, y, m, d], at
\* 0h: the Julian day number less 1/2; a string that is no date (iso FALSE)
\* raises ValueError
IsDate(date) == date.iso

DateToJD(date) ==
  LET a == (14 - date.m) \div 12
      y == date.y + 4800 - a
      m == date.m + 12 * a - 3
      jdn == date.d + (153 * m + 2) \div 5 + 365 * y + y \div 4 - y \div 100
             + y \div 400 - 32045
  IN Fin(2 * jdn - 1, 2)

\* a time resolution that looks for MJD before JD
ObservationTimeMJDFirst(header) ==
  IF header.MJD # <<>> THEN header.MJD[1]
  ELSE IF header.JD # <<>> THEN header.JD[1]
  ELSE IF header.DATEOBS # <<>> THEN DateToJD(header.DATEOBS[1])
  ELSE Fin(0, 1)

\* the time of a frame, by header key in the order JD, MJD, DATE-OBS
ObservationTime(header) ==
  IF header.JD # <<>> THEN header.JD[1]
  ELSE IF header.MJD # <<>> THEN header.MJD[1]
  ELSE IF header.DATEOBS # <<>> THEN DateToJD(header.DATEOBS[1])
  ELSE Fin(0, 1)

\* whether resolving the time raises: only the DATE-OBS branch can
TimeRaises(header) ==
  header.JD = <<>> /\ header.MJD = <<>> /\ header.DATEOBS # <<>>
    /\ ~IsDate(header.DATEOBS[1])

\* None for comparison_positions; a list is [given |-> TRUE, positions |-> ...]
NoPositions == [given |-> FALSE, positions |-> <<>>]

Positions(list) == [given |-> TRUE, positions |-> list]

\* "if comparison_positions:" is false for None and for an empty list
Truthy(comparison_positions) ==
  comparison_positions.given /\ comparison_positions.positions # <<>>

\* a loop body that takes the first comparison star alone as the reference
LightCurvePointFirstComparison(file, target_position, comparison_positions, aperture_radius) ==
  LET data == AsTypeFloat(file)
      phot == measure_aperture_photometry(data, <<target_position>>, aperture_radius,
                annulus_inner_default, annulus_outer_default)
      comp_phot == measure_aperture_photometry(data, comparison_positions.positions,
                     aperture_radius, annulus_inner_default, annulus_outer_default)
  IN [time |-> ObservationTime(file.header),
      target_f |-> phot[1].aper_sum_bkgsub,
      comp_f |-> IF Truthy(comparison_positions) THEN comp_phot[1].aper_sum_bkgsub
                 ELSE Fin(1, 1)]

\* the body of the loop of extract_light_curve for one readable, dated frame
LightCurvePoint(file, target_position, comparison_positions, aperture_radius) ==
  LET data == AsTypeFloat(file)
      phot == measure_aperture_photometry(data, <<target_position>>, aperture_radius,
                annulus_inner_default, annulus_outer_default)
      comp_phot == measure_aperture_photometry(data, comparison_positions.positions,
                     aperture_radius, annulus_inner_default, annulus_outer_default)
  IN [time |-> ObservationTime(file.header),
      target_f |-> phot[1].aper_sum_bkgsub,
      comp_f |-> IF Truthy(comparison_positions)
                 THEN FSum([k \in DOMAIN comp_phot |-> comp_phot[k].aper_sum_bkgsub])
                 ELSE Fin(1, 1)]

\* whether the photometry of the loop body (lines 137-145) raises
PointRaises(file, target_position, comparison_positions, aperture_radius) ==
  \/ PhotometryRaises(AsTypeFloat(file), <<target_position>>, aperture_radius,
                      annulus_inner_default, annulus_outer_default)
  \/ /\ Truthy(comparison_positions)
     /\ PhotometryRaises(AsTypeFloat(file), comparison_positions.positions,
                         aperture_radius, annulus_inner_default, annulus_outer_default)

\* index of the first file of the list whose loop body raises, 0 if none
FirstFailing(dsk, file_list, target_position, comparison_positions, aperture_radius) ==
  LET fails(i) ==
        \/ ~CanOpen(dsk, file_list[i])
        \/ TimeRaises(dsk[file_list[i]].header)
        \/ PointRaises(dsk[file_list[i]], target_position, comparison_positions,
                       aperture_radius)
  IN IF \A i \in DOMAIN file_list : ~fails(i) THEN 0
     ELSE CHOOSE i \in DOMAIN file_list : fails(i) /\ \A j \in 1..(i - 1) : ~fails(j)

\* the columns of the DataFrame from the collected lists
TableOf(points) ==
  LET ratio == List([i \in DOMAIN points |->
                       FDiv(points[i].target_f, points[i].comp_f)])
      med == Median(ratio)
  IN [time |-> List([i \in DOMAIN points |-> points[i].time]),
      target_flux |-> List([i \in DOMAIN points |-> points[i].target_f]),
      comparison_flux |-> List([i \in DOMAIN points |-> points[i].comp_f]),
      relative_flux |-> List([i \in DOMAIN points |-> FDiv(ratio[i], med)])]

\* the points in increasing order of time (an insertion sort)
RECURSIVE SortByTime(_)
SortByTime(points) ==
  IF points = <<>> THEN <<>>
  ELSE LET rest == SortByTime(Tail(points))
           first == points[1]
           before == SelectSeq(rest, LAMBDA q : FLess(q.time, first.time))
           after == SelectSeq(rest, LAMBDA q : ~FLess(q.time, first.time))
       IN before \o <<first>> \o after

\* a table sorted by time
LightCurveTableSorted(points) == TableOf(SortByTime(points))

\* lines 153-167 of extract_light_curve: the table keeps the order of the lists
LightCurveTable(points) == TableOf(points)

\* an extract_light_curve that skips the frames it cannot process
extract_light_curve_skipping(dsk, file_list, target_position, comparison_positions, aperture_radius) ==
  LET good == SelectSeq(file_list,
                LAMBDA f : CanOpen(dsk, f) /\ ~TimeRaises(dsk[f].header))
  IN Ok(TableOf(List([i \in DOMAIN good |->
            LightCurvePoint(dsk[good[i]], target_position, comparison_positions,
                            aperture_radius)])),
        dsk, good, <<>>)

extract_light_curve(dsk, file_list, target_position, comparison_positions, aperture_radius) ==
  LET bad == FirstFailing(dsk, file_list, target_position, comparison_positions,
                          aperture_radius)
  IN IF bad # 0
     THEN IF ~CanOpen(dsk, file_list[bad])
          THEN Raise("FileNotFoundError", dsk, SubSeq(file_list, 1, bad - 1), <<>>)
          ELSE IF TimeRaises(dsk[file_list[bad]].header)
          THEN Raise("ValueError", dsk, SubSeq(file_list, 1, bad), <<>>)
          ELSE Raise("FloatingPointError", dsk, SubSeq(file_list, 1, bad), <<>>)
     ELSE Ok(LightCurveTable(List([i \in DOMAIN file_list |->
                 LightCurvePoint(dsk[file_list[i]], target_position,
                                 comparison_positions, aperture_radius)])),
             dsk, file_list, <<>>)

\* measure_aperture_photometry as its caller sees it: the table, or the
\* exception of line 92
PhotometryCall(dsk, data, positions, aperture_radius, annulus_inner, annulus_outer) ==
  IF PhotometryRaises(data, positions, aperture_radius, annulus_inner, annulus_outer)
  THEN Raise("FloatingPointError", dsk, <<>>, <<>>)
  ELSE Ok(measure_aperture_photometry(data, positions, aperture_radius,
                                      annulus_inner, annulus_outer),
          dsk, <<>>, <<>>)

\* ---------------------------------------------------------------- utils.py
\* numpy.var of a flat sequence (the square of numpy.std)
Variance(s) ==
  LET mu == Mean(s)
  IN Mean(List([i \in DOMAIN s |-> FMul(FSub(s[i], mu), FSub(s[i], mu))]))

\* one pass of astropy's sigma clipping at sigma = 3 about the median: a
\* value stays if (x - median)^2 <= 9 * variance
Clip(s) ==
  LET m == Median(s)
      v9 == FMul(Fin(9, 1), Variance(s))
  IN SelectSeq(s, LAMBDA x : ~FLess(v9, FMul(FSub(x, m), FSub(x, m))))

\* passes until nothing is rejected, at most iters of them
RECURSIVE SigmaClip(_, _)
SigmaClip(s, iters) ==
  IF iters = 0 \/ s = <<>> THEN s
  ELSE LET c == Clip(s)
       IN IF Len(c) = Len(s) THEN s ELSE SigmaClip(c, iters - 1)

\* the median returned by sigma_clipped_stats(data, sigma=3.0): non-finite
\* values are masked, then at most 5 passes (astropy's maxiters default)
SigmaClippedMedian(data) == Median(SigmaClip(SelectSeq(data, IsFinite), 5))

\* an estimate_background_level that falls back to the median for a method
\* it does not know
estimate_background_level_lenient(dsk, data, method) ==
  IF method = "mean" THEN Ok(Mean(data), dsk, <<>>, <<>>)
  ELSE IF method = "sigma_clipped" THEN Ok(SigmaClippedMedian(data), dsk, <<>>, <<>>)
  ELSE Ok(Median(data), dsk, <<>>, <<>>)

estimate_background_level(dsk, data, method) ==
  IF method = "median" THEN Ok(Median(data), dsk, <<>>, <<>>)
  ELSE IF method = "mean" THEN Ok(Mean(data), dsk, <<>>, <<>>)
  ELSE IF method = "sigma_clipped" THEN Ok(SigmaClippedMedian(data), dsk, <<>>, <<>>)
  ELSE Raise("ValueError", dsk, <<>>, <<>>)

\* ------------------------------------------------------------ the inputs
Frames == [1..NPix -> 0..MaxPix]

\* a raw frame as the camera writes it, and a frame as this library writes it
RawFile(frame, header) == FitsFile("int", frame, header)

ReducedFile(frame) ==
  FitsFile("float", [p \in 1..NPix |-> Fin(frame[p], 1)],
           AddHistory(EmptyHeader, "Bias subtracted"))

JD0 == Fin(2451546, 1)

MJD0 == Fin(51544, 1)

Date0 == [iso |-> TRUE, y |-> 2000, m |-> 1, d |-> 1]

NotADate == [iso |-> FALSE, y |-> 0, m |-> 0, d |-> 0]

TimeHeaders ==
  {[JD |-> j, MJD |-> m, DATEOBS |-> d, HISTORY |-> <<>>] :
     j \in {<<>>, <<JD0>>}, m \in {<<>>, <<MJD0>>},
     d \in {<<>>, <<Date0>>, <<NotADate>>}}

\* calibration and science frames: every pixel pattern
CalFiles == {RawFile(f, EmptyHeader) : f \in Frames}

\* a frame of a time series: one pixel pattern under every combination of
\* time cards
SeriesFiles(frame) == {RawFile(frame, h) : h \in TimeHeaders}

Flat1 == [p \in 1..NPix |-> 1]

Ramp == [p \in 1..NPix |-> p]

FileA == PathOf("raw", "a.fits")

FileB == PathOf("raw", "b.fits")

DiskWith(a, b) ==
  [p \in Paths |-> IF p = FileA THEN a ELSE IF p = FileB THEN b ELSE NoFile]

RECURSIVE SeqsUpTo(_, _)
SeqsUpTo(S, n) ==
  IF n = 0 THEN {<<>>}
  ELSE LET shorter == SeqsUpTo(S, n - 1)
       IN shorter \cup {Append(s, x) : s \in {t \in shorter : Len(t) = n - 1}, x \in S}

FileLists == SeqsUpTo(InPaths, MaxFiles)

\* the master frames a caller holds: none, or the one made from a file on disk
MasterBiasOpts(dsk) ==
  {None} \cup {create_master_bias(dsk, <<p>>, NoPath).value :
                 p \in {q \in {FileA} : CanOpen(dsk, q)}}

MasterFlatOpts(dsk) ==
  {None} \cup {create_master_flat(dsk, <<p>>, None, NoPath).value :
                 p \in {q \in {FileB} : CanOpen(dsk, q)}}

TargetPositions == {<<0, 0>>}

\* no comparison star (None, or an empty list), or two of them
ComparisonOpts ==
  {NoPositions, Positions(<<>>), Positions(<<<<NPix - 1, 0>>, <<0, 0>>>>)}

ApertureRadii == {1, aperture_radius_default}

\* a synthetic image: a uniform background b and a point source of total
\* flux F on pixel s
Synthetic(b, F, s) == List([p \in 1..ImgPix |-> Fin(IF p = s THEN b + F ELSE b, 1)])

\* a frame from which too large a bias was subtracted: every pixel negative
OverSubtracted == List([p \in 1..ImgPix |-> Fin(-1, 1)])

Images ==
  {Synthetic(b, F, s) : b \in 0..MaxFlux, F \in 0..MaxFlux, s \in 1..ImgPix}
    \cup {OverSubtracted}

\* lists of one to MaxPositions stars anywhere on the strip
PhotPositions == SeqsUpTo({<<x, 0>> : x \in 0..(ImgPix - 1)}, MaxPositions) \ {<<>>}

\* <<aperture_radius, annulus_inner, annulus_outer>>
PhotRadii == {<<1, 1, 2>>, <<1, 2, 3>>}

Methods == {"median", "mean", "sigma_clipped", "mode", "Median", ""}

\* --------------------------------------------------------- state machine
VARIABLES disk, ret, mem, ui

vars == <<disk, ret, mem, ui>>

NoCall == [op |-> "none"]

\* the arrays the caller holds: an image, the master frames,
\* and the master frames as they were when they were made
NoArrays ==
  [image |-> None, master_bias |-> None, master_flat |-> None,
   built_bias |-> None, built_flat |-> None]

\* no widget is shown
NoWidget == [widget |-> "none"]

Init ==
  /\ ret = NoCall
  /\ mem = NoArrays
  /\ ui = NoWidget
  /\ \/ \E a \in CalFiles \cup {NoFile},
           b \in {RawFile(Flat1, EmptyHeader), RawFile(Ramp, EmptyHeader),
                  ReducedFile(Ramp), NoFile} :
          disk = DiskWith(a, b)
     \/ \E a \in SeriesFiles(Flat1), b \in SeriesFiles(Ramp) \cup {NoFile} :
          disk = DiskWith(a, b)

\* the caller's view of a finished call
Returned(op, args, r) ==
  IF r.status = "ok"
  THEN [op |-> op, args |-> args, status |-> "ok", value |-> r.value,
        loaded |-> r.loaded, written |-> r.written]
  ELSE [op |-> op, args |-> args, status |-> "raise", exc |-> r.exc,
        loaded |-> r.loaded, written |-> r.written]

\* A call is made on a filesystem on which none has been made: what a call
\* leaves behind (float frames with HISTORY cards) is in Init as well.
Call(op, args, r) ==
  /\ disk' = r.disk
  /\ ret' = Returned(op, args, r)
  /\ UNCHANGED <<mem, ui>>

CreateMasterBias ==
  /\ ret = NoCall
  /\ \E bias_files \in FileLists, output_path \in {NoPath, OutPath} :
       Call("create_master_bias",
            [bias_files |-> bias_files, output_path |-> output_path],
            create_master_bias(disk, bias_files, output_path))

CreateMasterFlat ==
  /\ ret = NoCall
  /\ \E flat_files \in FileLists, master_bias \in MasterBiasOpts(disk),
        output_path \in {NoPath, OutPath} :
       Call("create_master_flat",
            [flat_files |-> flat_files, master_bias |-> master_bias,
             output_path |-> output_path],
            create_master_flat(disk, flat_files, master_bias, output_path))

ReduceScienceFrame ==
  /\ ret = NoCall
  /\ \E science_file \in InPaths, master_bias \in MasterBiasOpts(disk),
        master_flat \in MasterFlatOpts(disk), output_path \in {NoPath, OutPath} :
       Call("reduce_science_frame",
            [science_file |-> science_file, master_bias |-> master_bias,
             master_flat |-> master_flat, output_path |-> output_path],
            reduce_science_frame(disk, science_file, master_bias, master_flat,
                                 output_path))

BatchReduce ==
  /\ ret = NoCall
  /\ \E science_files \in FileLists, master_bias \in MasterBiasOpts(disk),
        master_flat \in MasterFlatOpts(disk), output_dir \in {NoDir, OutDir} :
       Call("batch_reduce",
            [science_files |-> science_files, master_bias |-> master_bias,
             master_flat |-> master_flat, output_dir |-> output_dir],
            batch_reduce(disk, science_files, master_bias, master_flat, output_dir))

ExtractLightCurve ==
  /\ ret = NoCall
  /\ \E file_list \in FileLists, target_position \in TargetPositions,
        comparison_positions \in ComparisonOpts, aperture_radius \in ApertureRadii :
       Call("extract_light_curve",
            [file_list |-> file_list, target_position |-> target_position,
             comparison_positions |-> comparison_positions,
             aperture_radius |-> aperture_radius],
            extract_light_curve(disk, file_list, target_position,
                                comparison_positions, aperture_radius))

Next ==
  \/ CreateMasterBias
  \/ CreateMasterFlat
  \/ ReduceScienceFrame
  \/ BatchReduce
  \/ ExtractLightCurve

Spec == Init /\ [][Next]_vars

\* The functions that work on an array in memory
\* (measure_aperture_photometry, estimate_background_level): one call on an
\* image drawn from the inputs.  The image is also on disk, as the float
\* frame a.fits without time cards, for extract_light_curve to measure.
InitArrays ==
  /\ ret = NoCall
  /\ \E data \in Images :
       /\ mem = [NoArrays EXCEPT !.image = data]
       /\ disk = DiskWith(FitsFile("float", data, EmptyHeader), NoFile)
  /\ ui = NoWidget

MeasureAperturePhotometry ==
  /\ ret = NoCall
  /\ mem.image # None
  /\ \E positions \in PhotPositions, radii \in PhotRadii :
       Call("measure_aperture_photometry",
            [data |-> mem.image, positions |-> positions, aperture_radius |-> radii[1],
             annulus_inner |-> radii[2], annulus_outer |-> radii[3]],
            PhotometryCall(disk, mem.image, positions, radii[1], radii[2], radii[3]))

EstimateBackgroundLevel ==
  /\ ret = NoCall
  /\ mem.image # None
  /\ \E method \in Methods :
       Call("estimate_background_level", [data |-> mem.image, method |-> method],
            estimate_background_level(disk, mem.image, method))

NextArrays ==
  \/ MeasureAperturePhotometry
  \/ EstimateBackgroundLevel
  \/ ExtractLightCurve

SpecArrays == InitArrays /\ [][NextArrays]_vars

\* A session that makes the master frames once and reuses them: the master
\* bias from a.fits, the master flat from b.fits, then any sequence of
\* reductions of the same files with the masters the caller holds.
InitReuse ==
  /\ ret = NoCall
  /\ mem = NoArrays
  /\ ui = NoWidget
  /\ \E a \in {Flat1, Ramp}, b \in {Flat1, Ramp} :
       disk = DiskWith(RawFile(a, EmptyHeader), RawFile(b, EmptyHeader))

\* a call with the caller's masters: its writes, its result, and the
\* masters as the call leaves them
CallWith(op, args, r, master_bias, master_flat) ==
  /\ disk' = r.disk
  /\ ret' = Returned(op, args, r)
  /\ mem' = [mem EXCEPT !.master_bias = master_bias, !.master_flat = master_flat]
  /\ UNCHANGED ui

MakeMasterBias ==
  /\ mem.master_bias = None
  /\ mem.master_flat = None
  /\ LET r == create_master_bias(disk, <<FileA>>, NoPath)
     IN /\ disk' = r.disk
        /\ ret' = Returned("create_master_bias",
                           [bias_files |-> <<FileA>>, output_path |-> NoPath], r)
        /\ mem' = [mem EXCEPT !.master_bias = r.value, !.built_bias = r.value]
        /\ UNCHANGED ui

MakeMasterFlat ==
  /\ mem.master_flat = None
  /\ \E flat_files \in {<<FileB>>, <<FileB, FileA>>} :
       LET r == create_master_flat(disk, flat_files, mem.master_bias, NoPath)
       IN /\ disk' = r.disk
          /\ ret' = Returned("create_master_flat",
                             [flat_files |-> flat_files,
                              master_bias |-> mem.master_bias,
                              output_path |-> NoPath], r)
          /\ mem' = [mem EXCEPT
                       !.master_bias = FlatArrays(disk, flat_files, 1, mem.master_bias),
                       !.master_flat = r.value, !.built_flat = r.value]
          /\ UNCHANGED ui

ReduceWithMasters ==
  \E science_file \in InPaths, output_path \in {NoPath, OutPath} :
    LET after == ReduceArrays(load_fits(disk, science_file).data,
                              mem.master_bias, mem.master_flat)
    IN CallWith("reduce_science_frame",
                [science_file |-> science_file, master_bias |-> mem.master_bias,
                 master_flat |-> mem.master_flat, output_path |-> output_path],
                reduce_science_frame(disk, science_file, mem.master_bias,
                                     mem.master_flat, output_path),
                after.master_bias, after.master_flat)

BatchReduceWithMasters ==
  \E science_files \in FileLists :
    LET after == BatchArrays(disk, science_files, 1, mem.master_bias,
                             mem.master_flat)
    IN CallWith("batch_reduce",
                [science_files |-> science_files, master_bias |-> mem.master_bias,
                 master_flat |-> mem.master_flat, output_dir |-> NoDir],
                batch_reduce(disk, science_files, mem.master_bias, mem.master_flat,
                             NoDir),
                after.master_bias, after.master_flat)

NextReuse ==
  \/ MakeMasterBias
  \/ MakeMasterFlat
  \/ ReduceWithMasters
  \/ BatchReduceWithMasters

SpecReuse == InitReuse /\ [][NextReuse]_vars

\* ------------------------------------------------- photometryExercise.py
\* The text of a TextInput is a sequence of characters.  float(text) reads
\* an optional sign, digits with at most one decimal point and at least one
\* digit, or "nan", between optional blanks; any other text raises
\* ValueError.  (Exponents and "inf" are not among the texts typed here.)
Digits == <<"0", "1", "2", "3", "4", "5", "6", "7", "8", "9">>

RECURSIVE Strip(_)
Strip(text) ==
  IF text # <<>> /\ text[1] = " " THEN Strip(Tail(text))
  ELSE IF text # <<>> /\ text[Len(text)] = " "
  THEN Strip(SubSeq(text, 1, Len(text) - 1))
  ELSE text

\* whether float(text) returns
CanParse(text) ==
  LET stripped == Strip(text)
      body == IF stripped # <<>> /\ stripped[1] \in {"-", "+"}
              THEN Tail(stripped) ELSE stripped
      points == Len(SelectSeq(body, LAMBDA ch : ch = "."))
  IN \/ stripped = <<"n", "a", "n">>
     \/ /\ Len(body) - points >= 1
        /\ points <= 1
        /\ \A i \in DOMAIN body : body[i] = "." \/ body[i] \in Range(Digits)

RECURSIVE DigitsValue(_)
DigitsValue(digits) ==
  IF digits = <<>> THEN 0
  ELSE 10 * DigitsValue(SubSeq(digits, 1, Len(digits) - 1))
       + (CHOOSE i \in DOMAIN Digits : Digits[i] = digits[Len(digits)]) - 1

RECURSIVE Pow10(_)
Pow10(k) == IF k = 0 THEN 1 ELSE 10 * Pow10(k - 1)

\* float(text) for a text that parses
ParseFloat(text) ==
  LET stripped == Strip(text)
      body == IF stripped[1] \in {"-", "+"} THEN Tail(stripped) ELSE stripped
      digits == SelectSeq(body, LAMBDA ch : ch # ".")
      decimals == IF Len(digits) = Len(body) THEN 0
                  ELSE Len(body) - (CHOOSE i \in DOMAIN body : body[i] = ".")
      magnitude == Fin(DigitsValue(digits), Pow10(decimals))
  IN IF stripped = <<"n", "a", "n">> THEN NaN
     ELSE IF stripped[1] = "-" THEN FNeg(magnitude) ELSE magnitude

\* A callback is a list of statements run in order; the first float() that
\* raises ends it, and what the statements before it have set stays set.
\* Statement: obj.attr = float(box.value) * times
SetFloat(obj, attr, box, times) ==
  [kind |-> "float", obj |-> obj, attr |-> attr, box |-> box, times |-> times]

\* Statement: obj.attr = value
SetValue(obj, attr, value) ==
  [kind |-> "value", obj |-> obj, attr |-> attr, value |-> value]

\* the widget after statements i.. of the list
RECURSIVE Run(_, _, _)
Run(w, stmts, i) ==
  IF i > Len(stmts) THEN w
  ELSE LET st == stmts[i]
       IN IF st.kind = "float"
          THEN IF ~CanParse(w[st.box].value) THEN w
               ELSE Run([w EXCEPT ![st.obj][st.attr] =
                            FMul(ParseFloat(w[st.box].value), st.times)],
                        stmts, i + 1)
          ELSE Run([w EXCEPT ![st.obj][st.attr] = st.value], stmts, i + 1)

Circle(x, y, radius) == [x |-> x, y |-> y, radius |-> radius, visible |-> FALSE]

\* standardDisplay (lines 44-130): the models it creates
standardDisplay ==
  [widget |-> "standardPlot",
   color_mapper |-> [low |-> Fin(100, 1), high |-> Fin(1000, 1)],
   cbim |-> [start |-> Fin(-200, 1), end |-> Fin(5000, 1),
             value |-> <<Fin(100, 1), Fin(1000, 1)>>],
   minCB |-> [value |-> <<"-", "2", "0", "0">>],
   maxCB |-> [value |-> <<"5", "0", "0", "0">>],
   Xp |-> [value |-> <<"x">>], Yp |-> [value |-> <<"y">>], Rp |-> [value |-> <<"3">>],
   c |-> [x |-> Fin(50, 1), y |-> Fin(50, 1), visible |-> FALSE],
   aperture |-> Circle(Fin(50, 1), Fin(50, 1), Fin(3, 1)),
   innerSky |-> Circle(Fin(50, 1), Fin(50, 1), FMul(Fin(3, 1), Fin(3, 2))),
   outerSky |-> Circle(Fin(50, 1), Fin(50, 1), FMul(Fin(3, 1), Fin(2, 1)))]

\* updateCb (lines 73-76)
updateCb(w) ==
  [w EXCEPT !.color_mapper = [low |-> w.cbim.value[1], high |-> w.cbim.value[2]]]

\* updateBcLim (lines 78-81)
updateBcLim(w) ==
  Run(w, <<SetFloat("cbim", "start", "minCB", Fin(1, 1)),
           SetFloat("cbim", "end", "maxCB", Fin(1, 1))>>, 1)

\* update (lines 83-88)
update(w) ==
  Run(w, <<SetFloat("c", "x", "Xp", Fin(1, 1)), SetFloat("c", "y", "Yp", Fin(1, 1)),
           SetValue("c", "visible", TRUE)>>, 1)

\* updateR (lines 90-103)
updateR(w) ==
  Run(w, <<SetFloat("aperture", "x", "Xp", Fin(1, 1)),
           SetFloat("aperture", "y", "Yp", Fin(1, 1)),
           SetFloat("innerSky", "x", "Xp", Fin(1, 1)),
           SetFloat("innerSky", "y", "Yp", Fin(1, 1)),
           SetFloat("outerSky", "x", "Xp", Fin(1, 1)),
           SetFloat("outerSky", "y", "Yp", Fin(1, 1)),
           SetFloat("aperture", "radius", "Rp", Fin(1, 1)),
           SetFloat("innerSky", "radius", "Rp", Fin(3, 2)),
           SetFloat("outerSky", "radius", "Rp", Fin(2, 1)),
           SetValue("aperture", "visible", TRUE),
           SetValue("innerSky", "visible", TRUE),
           SetValue("outerSky", "visible", TRUE)>>, 1)

\* what the user types and drags
CoordinateTexts == {<<" ", "4", "2", ".", "5">>}

RadiusTexts == {<<"5">>, <<"r">>}

LimitTexts == {<<"9", "0", "0">>, <<>>}

SliderValues == {<<Fin(100, 1), Fin(1000, 1)>>, <<Fin(0, 1), Fin(500, 1)>>}

\* whether the slider can be dragged to the value: start <= low <= high <= end
InRange(cbim, value) ==
  /\ ~FLess(value[1], cbim.start)
  /\ ~FLess(value[2], value[1])
  /\ ~FLess(cbim.end, value[2])

InitStandardPlot ==
  /\ disk = DiskWith(NoFile, NoFile)
  /\ ret = NoCall
  /\ mem = NoArrays
  /\ ui = standardDisplay

\* the user drags the colour bar slider: cbim.on_change('value', updateCb)
MoveSlider ==
  /\ \E value \in SliderValues :
       /\ value # ui.cbim.value
       /\ InRange(ui.cbim, value)
       /\ ui' = updateCb([ui EXCEPT !.cbim.value = value])
  /\ UNCHANGED <<disk, ret, mem>>

\* the user types in one of the text boxes (no callback is attached)
TypeText ==
  /\ \/ \E box \in {"Xp", "Yp"} :
          \E text \in CoordinateTexts : ui' = [ui EXCEPT ![box].value = text]
     \/ \E text \in RadiusTexts : ui' = [ui EXCEPT !.Rp.value = text]
     \/ \E box \in {"minCB", "maxCB"} :
          \E text \in LimitTexts : ui' = [ui EXCEPT ![box].value = text]
  /\ UNCHANGED <<disk, ret, mem>>

\* 'Update colorbar'
ClickUpdateColorbar ==
  /\ ui' = updateBcLim(ui)
  /\ UNCHANGED <<disk, ret, mem>>

\* 'Center of star (x, y)'
ClickCenter ==
  /\ ui' = update(ui)
  /\ UNCHANGED <<disk, ret, mem>>

\* 'Update radius'
ClickUpdateRadius ==
  /\ ui' = updateR(ui)
  /\ UNCHANGED <<disk, ret, mem>>

NextStandardPlot ==
  \/ MoveSlider
  \/ TypeText
  \/ ClickUpdateColorbar
  \/ ClickCenter
  \/ ClickUpdateRadius

SpecStandardPlot == InitStandardPlot /\ [][NextStandardPlot]_vars

\* clusterDisplay (lines 152-283): the models it creates; right holds the
\* two colour bars of the plot, each with the image whose mapper it shows
clusterDisplay ==
  [widget |-> "clusterPlot",
   rV |-> [visible |-> TRUE,
           color_mapper |-> [low |-> Fin(15, 1), high |-> Fin(35, 1)]],
   rI |-> [visible |-> FALSE,
           color_mapper |-> [low |-> Fin(150, 1), high |-> Fin(600, 1)]],
   right |-> <<[visible |-> TRUE, image |-> "rV"],
               [visible |-> FALSE, image |-> "rI"]>>,
   im |-> [value |-> "V", options |-> {"V", "I"}],
   cbim |-> [start |-> Fin(0, 1), end |-> Fin(100, 1), step |-> 1,
             value |-> <<Fin(15, 1), Fin(35, 1)>>],
   minCB |-> [value |-> <<"-", "2", "0", "0">>],
   maxCB |-> [value |-> <<"5", "0", "0", "0">>],
   divX |-> [text |-> <<>>], divY |-> [text |-> <<>>],
   taps |-> 0]

\* updateCb of clusterDisplay (lines 202-205)
clusterDisplay_updateCb(w) ==
  LET mapper == [low |-> w.cbim.value[1], high |-> w.cbim.value[2]]
  IN [w EXCEPT !.rV.color_mapper = mapper, !.rI.color_mapper = mapper]

\* cbim.value = value: the slider's on_change callback runs when the value
\* changes (line 253)
SetSliderValue(w, value) ==
  IF value = w.cbim.value THEN w
  ELSE clusterDisplay_updateCb([w EXCEPT !.cbim.value = value])

\* updateIm that shows the I-band image without hiding the V-band one
updateImKeepsV(w) ==
  IF w.im.value = "V"
  THEN SetSliderValue(
         [w EXCEPT !.rV.visible = TRUE, !.right[1].visible = TRUE,
                   !.rI.visible = FALSE, !.right[2].visible = FALSE,
                   !.cbim.end = Fin(100, 1), !.cbim.step = 10],
         <<Fin(15, 1), Fin(35, 1)>>)
  ELSE IF w.im.value = "I"
  THEN SetSliderValue(
         [w EXCEPT !.rI.visible = TRUE, !.right[2].visible = TRUE,
                   !.cbim.end = Fin(1000, 1), !.cbim.step = 10],
         <<Fin(150, 1), Fin(600, 1)>>)
  ELSE w

\* updateIm (lines 182-199)
updateIm(w) ==
  IF w.im.value = "V"
  THEN SetSliderValue(
         [w EXCEPT !.rV.visible = TRUE, !.right[1].visible = TRUE,
                   !.rI.visible = FALSE, !.right[2].visible = FALSE,
                   !.cbim.end = Fin(100, 1), !.cbim.step = 10],
         <<Fin(15, 1), Fin(35, 1)>>)
  ELSE IF w.im.value = "I"
  THEN SetSliderValue(
         [w EXCEPT !.rV.visible = FALSE, !.right[1].visible = FALSE,
                   !.rI.visible = TRUE, !.right[2].visible = TRUE,
                   !.cbim.end = Fin(1000, 1), !.cbim.step = 10],
         <<Fin(150, 1), Fin(600, 1)>>)
  ELSE w

ClusterSliderValues ==
  {<<Fin(15, 1), Fin(35, 1)>>, <<Fin(20, 1), Fin(30, 1)>>,
   <<Fin(200, 1), Fin(500, 1)>>}

InitClusterPlot ==
  /\ disk = DiskWith(NoFile, NoFile)
  /\ ret = NoCall
  /\ mem = NoArrays
  /\ ui = clusterDisplay

\* the user picks a filter: im.on_change('value', updateIm)
SelectFilter ==
  /\ \E value \in ui.im.options :
       /\ value # ui.im.value
       /\ ui' = updateIm([ui EXCEPT !.im.value = value])
  /\ UNCHANGED <<disk, ret, mem>>

\* the user drags the colour bar slider of the cluster plot
MoveClusterSlider ==
  /\ \E value \in ClusterSliderValues :
       /\ value # ui.cbim.value
       /\ InRange(ui.cbim, value)
       /\ ui' = SetSliderValue(ui, value)
  /\ UNCHANGED <<disk, ret, mem>>

\* the user types in the min or max box
TypeLimit ==
  /\ \E box \in {"minCB", "maxCB"} :
       \E text \in LimitTexts : ui' = [ui EXCEPT ![box].value = text]
  /\ UNCHANGED <<disk, ret, mem>>

NextClusterPlot ==
  \/ SelectFilter
  \/ MoveClusterSlider
  \/ TypeLimit
  \/ ClickUpdateColorbar

SpecClusterPlot == InitClusterPlot /\ [][NextClusterPlot]_vars

\* The double-tap log (lines 213-245, 262-266) is JavaScript run in the
\* browser on the texts of divX and divY.
\* text.split(sep): the pieces of the text between the separators
RECURSIVE Split(_, _)
Split(text, sep) ==
  LET starts == {i \in 1..(Len(text) - Len(sep) + 1) :
                   SubSeq(text, i, i + Len(sep) - 1) = sep}
  IN IF starts = {} THEN <<text>>
     ELSE LET i == CHOOSE j \in starts : \A k \in starts : j <= k
          IN <<SubSeq(text, 1, i - 1)>>
             \o Split(SubSeq(text, i + Len(sep), Len(text)), sep)

\* lines.join(sep)
RECURSIVE Join(_, _)
Join(lines, sep) ==
  IF lines = <<>> THEN <<>>
  ELSE IF Len(lines) = 1 THEN lines[1]
  ELSE lines[1] \o sep \o Join(Tail(lines), sep)

\* JSON.stringify(Number(val.toFixed(2))) of a finite number (lines 223-225):
\* rounded to hundredths, written without trailing zeros
NumberText(val) ==
  LET hundredths == (200 * Abs(val.n) + val.d) \div (2 * val.d)
      RECURSIVE DigitsText(_)
      DigitsText(n) ==
        IF n < 10 THEN <<Digits[n + 1]>>
        ELSE DigitsText(n \div 10) \o <<Digits[(n % 10) + 1]>>
      tenths == (hundredths % 100) \div 10
      last == hundredths % 10
  IN (IF val.n < 0 /\ hundredths # 0 THEN <<"-">> ELSE <<>>)
     \o DigitsText(hundredths \div 100)
     \o (IF tenths = 0 /\ last = 0 THEN <<>>
         ELSE IF last = 0 THEN <<".", Digits[tenths + 1]>>
         ELSE <<".", Digits[tenths + 1], Digits[last + 1]>>)

\* the separator ", \n" of the log
LogSeparator == <<",", " ", "\n">>

\* display_event that drops the oldest x but never the oldest y
display_event_keeps_y(w, x, y) ==
  LET args == <<<<"x", "=">> \o NumberText(x), <<"y", "=">> \o NumberText(y)>>
      vals == Split(Join(args, <<",", " ">>), <<",", " ">>)
      xval == Split(vals[1], <<"x", "=">>)[2]
      linesX == Split(w.divX.text \o xval \o LogSeparator, LogSeparator)
      yval == Split(vals[2], <<"y", "=">>)[2]
      linesY == Split(w.divY.text \o yval \o LogSeparator, LogSeparator)
  IN [w EXCEPT
        !.divX.text = Join(IF Len(linesX) > 35 THEN Tail(linesX) ELSE linesX,
                           LogSeparator),
        !.divY.text = Join(linesY, LogSeparator)]

\* the CustomJS of display_event (lines 219-245) for a double-tap at (x, y)
display_event(w, x, y) ==
  LET args == <<<<"x", "=">> \o NumberText(x), <<"y", "=">> \o NumberText(y)>>
      vals == Split(Join(args, <<",", " ">>), <<",", " ">>)
      xval == Split(vals[1], <<"x", "=">>)[2]
      linesX == Split(w.divX.text \o xval \o LogSeparator, LogSeparator)
      yval == Split(vals[2], <<"y", "=">>)[2]
      linesY == Split(w.divY.text \o yval \o LogSeparator, LogSeparator)
  IN [w EXCEPT
        !.divX.text = Join(IF Len(linesX) > 35 THEN Tail(linesX) ELSE linesX,
                           LogSeparator),
        !.divY.text = Join(IF Len(linesY) > 35 THEN Tail(linesY) ELSE linesY,
                           LogSeparator)]

\* the most double-taps in one session
MaxTaps == 37

\* where the k-th double-tap lands: the pointer moves a quarter of a pixel
\* right and half a pixel down between taps, and leaves the image below
TapPoint(k) == [x |-> Fin(k, 4), y |-> Fin(20 - k, 2)]

\* the user double-taps on the plot: plot.js_on_event(events.DoubleTap, ...)
DoubleTap ==
  /\ ui.taps < MaxTaps
  /\ LET point == TapPoint(ui.taps + 1)
     IN ui' = display_event([ui EXCEPT !.taps = @ + 1], point.x, point.y)
  /\ UNCHANGED <<disk, ret, mem>>

NextDoubleTap ==
  \/ DoubleTap
  \/ SelectFilter
  \/ MoveClusterSlider

SpecDoubleTap == InitClusterPlot /\ [][NextDoubleTap]_vars

\* clusterPlotApertures: several grid widgets live in one notebook.  The
\* renderers of panel i are bound to the module-level names rV_i, rI_i,
\* aperture_i, innerSky_i and outerSky_i (lines 319-343); globals[i] is the
\* grid whose panel i those names are bound to (0: not bound).
MaxGrids == 2

MaxCoordinates == 2

\* one pass of the loop of lines 312-343
Panel ==
  [rV |-> [visible |-> TRUE], rI |-> [visible |-> FALSE],
   aperture |-> Circle(Fin(50, 1), Fin(50, 1), Fin(3, 1)),
   innerSky |-> Circle(Fin(50, 1), Fin(50, 1), FMul(Fin(3, 1), Fin(3, 2))),
   outerSky |-> Circle(Fin(50, 1), Fin(50, 1), FMul(Fin(3, 1), Fin(2, 1)))]

\* the models one run of clusterDisplayGrid creates for n coordinates (the
\* min and max boxes and 'Update colorbar', which set the limits of the
\* grid's own slider, are left out)
Grid(n) ==
  [xcoors |-> n,
   color_mapperV |-> [low |-> Fin(15, 1), high |-> Fin(35, 1)],
   color_mapperI |-> [low |-> Fin(150, 1), high |-> Fin(600, 1)],
   panels |-> [i \in 1..n |-> Panel],
   im |-> [value |-> "V", options |-> {"V", "I"}],
   cbim |-> [start |-> Fin(-200, 1), end |-> Fin(500, 1), step |-> 1,
             value |-> <<Fin(15, 1), Fin(35, 1)>>],
   Rp |-> [value |-> <<"3">>]]

NoGrids ==
  [widget |-> "clusterPlotApertures",
   globals |-> [i \in 1..MaxCoordinates |-> 0],
   grids |-> <<>>]

\* clusterDisplayGrid (lines 298-409) for n coordinates
clusterDisplayGrid(u, n) ==
  LET k == Len(u.grids) + 1
  IN [u EXCEPT !.grids = Append(u.grids, Grid(n)),
               !.globals = [i \in 1..MaxCoordinates |->
                              IF i <= n THEN k ELSE u.globals[i]]]

\* whether eval('<name>_%i' % i) in a callback of grid k yields panel i of
\* grid g: the callback loops over range(len(xcoors)) of its own grid
Evaluates(u, k, i, g) == i <= u.grids[k].xcoors /\ u.globals[i] = g

\* updateCb of grid k (lines 366-370)
clusterDisplayGrid_updateCb(u, k) ==
  LET mapper == [low |-> u.grids[k].cbim.value[1],
                 high |-> u.grids[k].cbim.value[2]]
  IN [u EXCEPT !.grids = [g \in DOMAIN u.grids |->
        IF \E i \in DOMAIN u.grids[g].panels : Evaluates(u, k, i, g)
        THEN [u.grids[g] EXCEPT !.color_mapperV = mapper,
                                !.color_mapperI = mapper]
        ELSE u.grids[g]]]

\* cbim.value = value in grid k (lines 391-392)
SetGridSliderValue(u, k, value) ==
  IF value = u.grids[k].cbim.value THEN u
  ELSE clusterDisplayGrid_updateCb([u EXCEPT !.grids[k].cbim.value = value], k)

\* the loops of lines 350-352 and 358-360
ShowFilter(u, k, filter) ==
  [u EXCEPT !.grids = [g \in DOMAIN u.grids |->
     [u.grids[g] EXCEPT !.panels = [i \in DOMAIN u.grids[g].panels |->
        IF Evaluates(u, k, i, g)
        THEN [u.grids[g].panels[i] EXCEPT !.rV.visible = (filter = "V"),
                                          !.rI.visible = (filter = "I")]
        ELSE u.grids[g].panels[i]]]]]

\* updateIm of grid k (lines 348-363)
clusterDisplayGrid_updateIm(u, k) ==
  IF u.grids[k].im.value = "V"
  THEN SetGridSliderValue(
         [ShowFilter(u, k, "V") EXCEPT !.grids[k].cbim.end = Fin(100, 1),
                                       !.grids[k].cbim.step = 10],
         k, <<Fin(15, 1), Fin(35, 1)>>)
  ELSE IF u.grids[k].im.value = "I"
  THEN SetGridSliderValue(
         [ShowFilter(u, k, "I") EXCEPT !.grids[k].cbim.end = Fin(1000, 1),
                                       !.grids[k].cbim.step = 10],
         k, <<Fin(150, 1), Fin(600, 1)>>)
  ELSE u

\* updateR of grid k (lines 377-384): the first float() of the first pass
\* raises when the text is not a number
clusterDisplayGrid_updateR(u, k) ==
  IF ~CanParse(u.grids[k].Rp.value) THEN u
  ELSE LET radius == ParseFloat(u.grids[k].Rp.value)
       IN [u EXCEPT !.grids = [g \in DOMAIN u.grids |->
            [u.grids[g] EXCEPT !.panels = [i \in DOMAIN u.grids[g].panels |->
               IF Evaluates(u, k, i, g)
               THEN [u.grids[g].panels[i] EXCEPT
                       !.aperture.radius = radius,
                       !.innerSky.radius = FMul(radius, Fin(3, 2)),
                       !.outerSky.radius = FMul(radius, Fin(2, 1)),
                       !.aperture.visible = TRUE,
                       !.innerSky.visible = TRUE,
                       !.outerSky.visible = TRUE]
               ELSE u.grids[g].panels[i]]]]]

GridSliderValues == {<<Fin(20, 1), Fin(30, 1)>>}

GridRadiusTexts == {<<"5">>}

InitGrids ==
  /\ disk = DiskWith(NoFile, NoFile)
  /\ ret = NoCall
  /\ mem = NoArrays
  /\ ui = NoGrids

\* clusterPlotApertures(cluster_v, cluster_i, xcoors, ycoors) is called and
\* its document is built
CreateGrid ==
  /\ Len(ui.grids) < MaxGrids
  /\ \E n \in 1..MaxCoordinates : ui' = clusterDisplayGrid(ui, n)
  /\ UNCHANGED <<disk, ret, mem>>

\* the user picks a filter in grid k
SelectFilterIn(k) ==
  \E value \in ui.grids[k].im.options :
    /\ value # ui.grids[k].im.value
    /\ ui' = clusterDisplayGrid_updateIm(
               [ui EXCEPT !.grids[k].im.value = value], k)

\* the user drags the colour bar slider of grid k
MoveSliderIn(k) ==
  \E value \in GridSliderValues :
    /\ value # ui.grids[k].cbim.value
    /\ InRange(ui.grids[k].cbim, value)
    /\ ui' = SetGridSliderValue(ui, k, value)

\* the user types in the radius box of grid k
TypeRadiusIn(k) ==
  \E text \in GridRadiusTexts : ui' = [ui EXCEPT !.grids[k].Rp.value = text]

\* 'Update radius' in grid k
ClickRadiusIn(k) == ui' = clusterDisplayGrid_updateR(ui, k)

SelectGridFilter ==
  /\ \E k \in DOMAIN ui.grids : SelectFilterIn(k)
  /\ UNCHANGED <<disk, ret, mem>>

MoveGridSlider ==
  /\ \E k \in DOMAIN ui.grids : MoveSliderIn(k)
  /\ UNCHANGED <<disk, ret, mem>>

TypeGridRadius ==
  /\ \E k \in DOMAIN ui.grids : TypeRadiusIn(k)
  /\ UNCHANGED <<disk, ret, mem>>

ClickGridRadius ==
  /\ \E k \in DOMAIN ui.grids : ClickRadiusIn(k)
  /\ UNCHANGED <<disk, ret, mem>>

NextGrids ==
  \/ CreateGrid
  \/ SelectGridFilter
  \/ MoveGridSlider
  \/ TypeGridRadius
  \/ ClickGridRadius

SpecGrids == InitGrids /\ [][NextGrids]_vars

\* ------------------------------------------------------------ properties
\* the paths a call may write: everything but the raw input files
OutputPaths == Paths \ InPaths

NothingOnOutput == \A p \in OutputPaths : disk[p] = NoFile

\* C1: create_master_bias and create_master_flat called with an empty file
\* list raise ValueError, having loaded no frame and written no file, also
\* when an output path is given.
C1_EmptyListRejected ==
  /\ (ret.op = "create_master_bias" /\ ret.args.bias_files = <<>>) =>
        /\ ret.status = "raise" /\ ret.exc = "ValueError"
        /\ ret.loaded = <<>> /\ ret.written = <<>> /\ NothingOnOutput
  /\ (ret.op = "create_master_flat" /\ ret.args.flat_files = <<>>) =>
        /\ ret.status = "raise" /\ ret.exc = "ValueError"
        /\ ret.loaded = <<>> /\ ret.written = <<>> /\ NothingOnOutput

C1_Witness ==
  /\ ret.op = "create_master_bias"
  /\ ret.args.bias_files = <<>>
  /\ ret.args.output_path = OutPath
  /\ ret.status = "raise"

\* C2: the array returned by create_master_flat has a median pixel value of
\* exactly 1.0, for every non-empty list of flat frames, with or without a
\* master bias.
C2_MasterFlatMedianIsOne ==
  (ret.op = "create_master_flat" /\ ret.status = "ok") =>
     Median(ret.value) = Fin(1, 1)

\* pixel p of a file as stored: an integer count c is the value c/1
Stored(file, p) ==
  IF file.dtype = "int" THEN [n |-> file.pix[p], d |-> 1] ELSE file.pix[p]

\* C3: create_master_bias returns the per-pixel median of the input frames:
\* at every pixel at least half of the frames are at or below the value and
\* at least half at or above it, for an odd number of frames the value is
\* that of one of them, and identical frames of constant value v give v at
\* every pixel, whatever the number of frames.
C3_MasterBiasIsMedian ==
  (ret.op = "create_master_bias" /\ ret.status = "ok") =>
    LET files == ret.args.bias_files
        n == Len(files)
    IN \A p \in 1..NPix :
         LET col == [k \in 1..n |-> Stored(disk[files[k]], p)]
             v == ret.value[p]
         IN /\ 2 * Cardinality({k \in 1..n : ~FLess(v, col[k])}) >= n
            /\ 2 * Cardinality({k \in 1..n : ~FLess(col[k], v)}) >= n
            /\ n % 2 = 1 => \E k \in 1..n : v = col[k]
            /\ (\A k \in 1..n, q \in 1..NPix : Stored(disk[files[k]], q) = col[1])
                  => v = col[1]

\* an even number of identical frames of constant value 1
C3_Witness ==
  /\ ret.op = "create_master_bias" /\ ret.status = "ok"
  /\ Len(ret.args.bias_files) = 2
  /\ \A k \in 1..2 : disk[ret.args.bias_files[k]] = RawFile(Flat1, EmptyHeader)
  /\ ret.value = [p \in 1..NPix |-> Fin(1, 1)]

ReduceReturned == ret.op = "reduce_science_frame" /\ ret.status = "ok"

\* C4: reduce_science_frame with master_bias=None and master_flat=None
\* returns pixel data equal to the data of the science file, pixel for pixel.
C4_ReduceIdentity ==
  (ReduceReturned /\ ret.args.master_bias = None /\ ret.args.master_flat = None) =>
    \A p \in 1..NPix :
      ret.value.data[p] = Stored(disk[ret.args.science_file], p)

C4_Witness ==
  /\ ReduceReturned
  /\ ret.args.master_bias = None /\ ret.args.master_flat = None
  /\ disk[ret.args.science_file].dtype = "int"
  /\ ret.value.data[1] = Fin(1, 1)
  /\ ret.value.data[NPix] = Fin(NPix, 1)

\* C5: with both masters every output pixel is (raw - bias) / flat; with the
\* bias alone it is raw - bias, with the flat alone raw / flat.
C5_BiasBeforeFlat ==
  ReduceReturned =>
    LET raw == [p \in 1..NPix |-> Stored(disk[ret.args.science_file], p)]
        bias == ret.args.master_bias
        flat == ret.args.master_flat
    IN \A p \in 1..NPix :
         ret.value.data[p] =
           IF bias # None /\ flat # None THEN FDiv(FSub(raw[p], bias[p]), flat[p])
           ELSE IF bias # None THEN FSub(raw[p], bias[p])
           ELSE IF flat # None THEN FDiv(raw[p], flat[p])
           ELSE raw[p]

\* both masters given and, at some pixel, finite results that tell the two
\* orders apart
C5_Witness ==
  /\ ReduceReturned
  /\ ret.args.master_bias # None /\ ret.args.master_flat # None
  /\ \E p \in 1..NPix :
       LET raw == Stored(disk[ret.args.science_file], p)
           bias == ret.args.master_bias[p]
           flat == ret.args.master_flat[p]
       IN /\ IsFinite(ret.value.data[p])
          /\ IsFinite(FSub(FDiv(raw, flat), bias))
          /\ ret.value.data[p] # FSub(FDiv(raw, flat), bias)

\* C6: reduce_science_frame appends to the header's HISTORY one note per
\* applied step, 'Bias subtracted' iff a master bias is given and then
\* 'Flat fielded' iff a master flat is given, and nothing else; the header
\* written to the output file is the header returned.
C6_HistoryPerStep ==
  ReduceReturned =>
    /\ ret.value.header.HISTORY =
          disk[ret.args.science_file].header.HISTORY
            \o (IF ret.args.master_bias # None THEN <<"Bias subtracted">> ELSE <<>>)
            \o (IF ret.args.master_flat # None THEN <<"Flat fielded">> ELSE <<>>)
    /\ ret.args.output_path # NoPath =>
          /\ Len(ret.written) = 1
          /\ ret.written[1].header = ret.value.header
          /\ disk[ret.args.output_path].header = ret.value.header

\* both steps applied to a frame that already carries a HISTORY card, saved
C6_Witness ==
  /\ ReduceReturned
  /\ ret.args.master_bias # None /\ ret.args.master_flat # None
  /\ ret.args.output_path = OutPath
  /\ Len(disk[ret.args.science_file].header.HISTORY) = 1
  /\ Len(disk[OutPath].header.HISTORY) = 3

\* the smallest element of a non-empty set of indices
First(S) == CHOOSE i \in S : \A j \in S : i <= j

\* C7: a batch_reduce that returns has reduced every file of the list once,
\* in list order.  With an output directory it has written result i to
\* <output_dir>/reduced_<name of file i> and returns these paths, one per
\* input file in input order; with none it has written nothing and returns
\* an empty list.
C7_BatchReduceOutputs ==
  (ret.op = "batch_reduce" /\ ret.status = "ok") =>
    LET files == ret.args.science_files
        expected(i) == reduce_science_frame(disk, files[i], ret.args.master_bias,
                                            ret.args.master_flat, NoPath).value
    IN /\ ret.loaded = files
       /\ IF ret.args.output_dir # NoDir
          THEN /\ ret.value = [i \in DOMAIN files |->
                                PathOf(ret.args.output_dir, "reduced_" \o files[i].name)]
               /\ Len(ret.written) = Len(files)
               /\ \A i \in DOMAIN files :
                    /\ ret.written[i].path = ret.value[i]
                    /\ ret.written[i].data = expected(i).data
                    /\ ret.written[i].header = expected(i).header
                    /\ disk[ret.value[i]].exists
          ELSE /\ ret.value = <<>>
               /\ ret.written = <<>>
               /\ NothingOnOutput

\* a list that names a file twice, reduced into an output directory
C7_Witness ==
  /\ ret.op = "batch_reduce" /\ ret.status = "ok"
  /\ ret.args.output_dir = OutDir
  /\ Len(ret.args.science_files) = 3
  /\ ret.args.science_files[1] = ret.args.science_files[3]
  /\ ret.args.science_files[1] # ret.args.science_files[2]
  /\ Len(ret.value) = 3

\* the frames of a list that batch_reduce cannot reduce, and those that
\* extract_light_curve cannot measure
Unreadable(files) == {i \in DOMAIN files : ~disk[files[i]].exists}

Undated(files) ==
  {i \in DOMAIN files :
     /\ disk[files[i]].exists
     /\ disk[files[i]].header.JD = <<>> /\ disk[files[i]].header.MJD = <<>>
     /\ disk[files[i]].header.DATEOBS = <<NotADate>>}

\* C8: batch_reduce and extract_light_curve raise exactly when a file of the
\* list cannot be processed, and then they stopped at the first such file:
\* only the files before it (and, for a time that cannot be parsed, the file
\* itself) were read, only the outputs of the files before it were written,
\* and no list of paths and no table is returned.
C8_AbortAtFirstError ==
  /\ ret.op = "batch_reduce" =>
       LET files == ret.args.science_files
           bad == Unreadable(files)
       IN /\ ret.status = "raise" <=> bad # {}
          /\ ret.status = "raise" =>
               LET k == First(bad)
               IN /\ ret.exc = "FileNotFoundError"
                  /\ "value" \notin DOMAIN ret
                  /\ ret.loaded = SubSeq(files, 1, k - 1)
                  /\ Len(ret.written) = IF ret.args.output_dir # NoDir THEN k - 1 ELSE 0
                  /\ \A i \in DOMAIN ret.written :
                       ret.written[i].path =
                         PathOf(ret.args.output_dir, "reduced_" \o files[i].name)
                  /\ \A p \in OutputPaths :
                       disk[p].exists =>
                         \E i \in DOMAIN ret.written : ret.written[i].path = p
  /\ ret.op = "extract_light_curve" =>
       LET files == ret.args.file_list
           bad == Unreadable(files) \cup Undated(files)
       IN /\ ret.status = "raise" <=> bad # {}
          /\ ret.status = "raise" =>
               LET k == First(bad)
               IN /\ "value" \notin DOMAIN ret
                  /\ ret.exc = IF k \in Unreadable(files) THEN "FileNotFoundError"
                               ELSE "ValueError"
                  /\ ret.loaded = SubSeq(files, 1, IF k \in Unreadable(files)
                                                  THEN k - 1 ELSE k)
                  /\ ret.written = <<>>
                  /\ NothingOnOutput

\* a batch with an output directory whose second file of three is missing
C8_Witness ==
  /\ ret.op = "batch_reduce" /\ ret.status = "raise"
  /\ ret.args.output_dir = OutDir
  /\ Len(ret.args.science_files) = 3
  /\ Unreadable(ret.args.science_files) = {2}
  /\ Len(ret.written) = 1

\* C9: the time of each row is the value of JD if the header has JD,
\* otherwise the value of MJD if it has MJD, otherwise the Julian Date of
\* DATE-OBS if it has DATE-OBS (2000-01-01 is JD 2451544.5), otherwise 0.0;
\* a key below the first present one is never used, so that a frame with no
\* time key, or with an unusable DATE-OBS under a JD or MJD, raises nothing.
C9_TimePriority ==
  ret.op = "extract_light_curve" =>
    LET files == ret.args.file_list
    IN /\ (Unreadable(files) = {} /\ Undated(files) = {}) => ret.status = "ok"
       /\ ret.status = "ok" =>
            \A i \in DOMAIN files :
              LET h == disk[files[i]].header
              IN ret.value.time[i] =
                   IF h.JD # <<>> THEN h.JD[1]
                   ELSE IF h.MJD # <<>> THEN h.MJD[1]
                   ELSE IF h.DATEOBS = <<Date0>> THEN [n |-> 4903089, d |-> 2]
                   ELSE [n |-> 0, d |-> 1]

\* a frame with no time key, then a frame with MJD over an unusable DATE-OBS
C9_Witness ==
  /\ ret.op = "extract_light_curve" /\ ret.status = "ok"
  /\ Len(ret.args.file_list) = 2
  /\ disk[ret.args.file_list[1]].header = EmptyHeader
  /\ disk[ret.args.file_list[2]].header =
       [JD |-> <<>>, MJD |-> <<MJD0>>, DATEOBS |-> <<NotADate>>, HISTORY |-> <<>>]
  /\ ret.value.time = <<Fin(0, 1), MJD0>>

\* C10: the light curve has one row per input file and row i is the
\* measurement of file i, whatever the times are.
C10_RowPerFile ==
  (ret.op = "extract_light_curve" /\ ret.status = "ok") =>
    LET files == ret.args.file_list
    IN /\ Len(ret.value.time) = Len(files)
       /\ Len(ret.value.target_flux) = Len(files)
       /\ Len(ret.value.comparison_flux) = Len(files)
       /\ Len(ret.value.relative_flux) = Len(files)
       /\ \A i \in DOMAIN files :
            [time |-> ret.value.time[i], target_f |-> ret.value.target_flux[i],
             comp_f |-> ret.value.comparison_flux[i]]
              = LightCurvePoint(disk[files[i]], ret.args.target_position,
                                ret.args.comparison_positions,
                                ret.args.aperture_radius)

\* three frames whose times decrease and then repeat
C10_Witness ==
  /\ ret.op = "extract_light_curve" /\ ret.status = "ok"
  /\ Len(ret.args.file_list) = 3
  /\ FLess(ret.value.time[2], ret.value.time[1])
  /\ ret.value.time[3] = ret.value.time[1]
  /\ ret.value.target_flux[1] # ret.value.target_flux[2]

\* the background-subtracted flux of one star of a stored frame, from the
\* aperture and annulus sums of measure_aperture_photometry's defaults
FluxAt(file, pos, r) ==
  LET data == List([p \in 1..NPix |-> Stored(file, p)])
  IN FSub(ApertureSum(data, pos[1], r),
          FMul(FDiv(AnnulusSum(data, pos[1], 15, 20), [n |-> 10, d |-> 1]),
               [n |-> 2 * r, d |-> 1]))

LightCurveReturned == ret.op = "extract_light_curve" /\ ret.status = "ok"

\* C11: with comparison positions the comparison_flux of a row is the sum of
\* the background-subtracted fluxes at all of them in that frame; with none
\* (None or an empty list) it is 1.0 in every row and relative_flux is the
\* target flux divided by the median target flux of the series.
C11_ComparisonFlux ==
  LightCurveReturned =>
    LET files == ret.args.file_list
        comps == ret.args.comparison_positions
        r == ret.args.aperture_radius
    IN \A i \in DOMAIN files :
         IF comps.given /\ Len(comps.positions) > 0
         THEN ret.value.comparison_flux[i] =
                FSum([k \in DOMAIN comps.positions |->
                        FluxAt(disk[files[i]], comps.positions[k], r)])
         ELSE /\ ret.value.comparison_flux[i] = [n |-> 1, d |-> 1]
              /\ ret.value.relative_flux[i] =
                    FDiv(ret.value.target_flux[i], Median(ret.value.target_flux))

\* two comparison stars whose fluxes differ from zero
C11_Witness ==
  /\ LightCurveReturned
  /\ Len(ret.args.file_list) = 2
  /\ Len(ret.args.comparison_positions.positions) = 2
  /\ LET file == disk[ret.args.file_list[1]]
         pos == ret.args.comparison_positions.positions
         r == ret.args.aperture_radius
     IN /\ FluxAt(file, pos[1], r).n > 0
        /\ FluxAt(file, pos[2], r).n > 0
        /\ FluxAt(file, pos[1], r) # FluxAt(file, pos[2], r)
        /\ ret.value.comparison_flux[1] =
              FAdd(FluxAt(file, pos[1], r), FluxAt(file, pos[2], r))

\* C12: relative_flux[i] is target_flux[i] / comparison_flux[i] divided by
\* the median over all rows of target_flux / comparison_flux; hence the
\* median of the relative_flux column is 1.0, and frames that are all the
\* same give relative_flux 1.0 in every row.
C12_RelativeFluxCentred ==
  (LightCurveReturned /\ Len(ret.args.file_list) > 0) =>
    LET files == ret.args.file_list
        ratio == List([i \in DOMAIN files |->
                         FDiv(ret.value.target_flux[i], ret.value.comparison_flux[i])])
        relative_flux == ret.value.relative_flux
    IN /\ \A i \in DOMAIN files : relative_flux[i] = FDiv(ratio[i], Median(ratio))
       /\ Median(relative_flux) = [n |-> 1, d |-> 1]
       /\ (\A i, j \in DOMAIN files : disk[files[i]] = disk[files[j]]) =>
             \A i \in DOMAIN files : relative_flux[i] = [n |-> 1, d |-> 1]

PhotReturned == ret.op = "measure_aperture_photometry" /\ ret.status = "ok"

\* pixel s lies wholly inside the aperture of radius r at x
InsideAperture(s, x, r) == 2 * x - 2 * r <= 2 * s - 3 /\ 2 * s - 1 <= 2 * x + 2 * r

\* pixel s lies wholly outside the annulus r_in..r_out at x
OutsideAnnulus(s, x, r_in, r_out) ==
  \/ 2 * s - 1 <= 2 * x - 2 * r_out
  \/ 2 * x + 2 * r_out <= 2 * s - 3
  \/ (2 * x - 2 * r_in <= 2 * s - 3 /\ 2 * s - 1 <= 2 * x + 2 * r_in)

\* C13: for each position the background-subtracted flux is the aperture
\* sum less (annulus sum / annulus area) * aperture area; so on an image of
\* uniform background b with a source of total flux F wholly inside the
\* aperture and outside the annulus it is F, for every b.
C13_BackgroundSubtractedFlux ==
  PhotReturned =>
    \A k \in DOMAIN ret.args.positions :
      LET x == ret.args.positions[k][1]
          r == ret.args.aperture_radius
          r_in == ret.args.annulus_inner
          r_out == ret.args.annulus_outer
          row == ret.value[k]
      IN /\ row.aperture_sum = ApertureSum(ret.args.data, x, r)
         /\ row.aper_sum_bkgsub =
               FSub(row.aperture_sum,
                    FMul(FDiv(AnnulusSum(ret.args.data, x, r_in, r_out),
                              [n |-> 2 * (r_out - r_in), d |-> 1]),
                         [n |-> 2 * r, d |-> 1]))
         /\ \A b \in 0..MaxFlux, F \in 0..MaxFlux, s \in 1..ImgPix :
               (/\ ret.args.data = Synthetic(b, F, s)
                /\ InsideAperture(s, x, r)
                /\ OutsideAnnulus(s, x, r_in, r_out))
                 => row.aper_sum_bkgsub = [n |-> F, d |-> 1]

\* C14: a background-subtracted flux that is zero or negative gives that
\* position a non-finite instrumental magnitude (+inf for zero, NaN for a
\* negative flux) and raises nothing; every position's row is what the
\* position gives when measured alone; extract_light_curve over readable
\* frames returns one row per file whatever the fluxes are.
C14_NonFiniteMagnitude ==
  /\ ret.op = "measure_aperture_photometry" =>
       /\ ret.status = "ok"
       /\ Len(ret.value) = Len(ret.args.positions)
       /\ \A k \in DOMAIN ret.args.positions :
            LET flux == ret.value[k].aper_sum_bkgsub
                mag == ret.value[k].mag_inst
            IN /\ (IsFinite(flux) /\ flux.n = 0) =>
                    (~mag.finite /\ mag.v = [n |-> 1, d |-> 0])
               /\ (IsFinite(flux) /\ flux.n < 0) =>
                    (~mag.finite /\ mag.v = [n |-> 0, d |-> 0])
               /\ (IsFinite(flux) /\ flux.n > 0) => mag.finite
               /\ <<ret.value[k]>> =
                    measure_aperture_photometry(ret.args.data, <<ret.args.positions[k]>>,
                      ret.args.aperture_radius, ret.args.annulus_inner,
                      ret.args.annulus_outer)
  /\ (ret.op = "extract_light_curve" /\ Unreadable(ret.args.file_list) = {}
        /\ Undated(ret.args.file_list) = {}) =>
       /\ ret.status = "ok"
       /\ Len(ret.value.target_flux) = Len(ret.args.file_list)
       /\ Len(ret.value.relative_flux) = Len(ret.args.file_list)

\* two stars measured at once: the first has a negative flux and a NaN
\* magnitude, the second a positive flux and a finite magnitude
C14_Witness ==
  /\ PhotReturned
  /\ Len(ret.args.positions) = 2
  /\ ret.value[1].aper_sum_bkgsub.n < 0
  /\ ret.value[1].mag_inst = [finite |-> FALSE, v |-> NaN]
  /\ ret.value[2].aper_sum_bkgsub.n > 0
  /\ ret.value[2].mag_inst.finite

\* C15: estimate_background_level raises ValueError and returns no value
\* for every method name other than 'median', 'mean' and 'sigma_clipped';
\* for each of these three it raises nothing and returns a value (for
\* 'median' the median of the pixels, for 'mean' their mean, for
\* 'sigma_clipped' a finite value between the least and the greatest pixel).
C15_UnknownMethodRejected ==
  ret.op = "estimate_background_level" =>
    LET data == ret.args.data
    IN IF ret.args.method \in {"median", "mean", "sigma_clipped"}
       THEN /\ ret.status = "ok"
            /\ IsFinite(ret.value)
            /\ ret.args.method = "median" => ret.value = Median(data)
            /\ ret.args.method = "mean" =>
                  FMul(ret.value, [n |-> Len(data), d |-> 1]) = FSum(data)
            /\ \E p, q \in DOMAIN data :
                  ~FLess(ret.value, data[p]) /\ ~FLess(data[q], ret.value)
       ELSE /\ ret.status = "raise"
            /\ ret.exc = "ValueError"
            /\ "value" \notin DOMAIN ret

\* a method name that differs from a recognised one by its case only
C15_Witness ==
  /\ ret.op = "estimate_background_level"
  /\ ret.args.method = "Median"
  /\ ret.status = "raise"
  /\ \E p, q \in DOMAIN ret.args.data : ret.args.data[p] # ret.args.data[q]

\* C16: reduce_science_frame, batch_reduce and create_master_flat never
\* modify the master bias or the master flat passed to them: after any
\* sequence of reductions with the same masters each master holds the pixel
\* values it had when it was made, and each call was given these values.
C16_MastersNeverModified ==
  /\ mem.master_bias = mem.built_bias
  /\ mem.master_flat = mem.built_flat
  /\ ret.op \in {"reduce_science_frame", "batch_reduce"} =>
       /\ ret.args.master_bias = mem.built_bias
       /\ ret.args.master_flat = mem.built_flat
  /\ ret.op = "create_master_flat" => ret.args.master_bias = mem.built_bias

\* a batch of three frames with both masters, after an earlier reduction
\* with them has written its result; the flat has unequal pixels
C16_Witness ==
  /\ ret.op = "batch_reduce" /\ ret.status = "ok"
  /\ Len(ret.args.science_files) = 3
  /\ mem.master_bias # None /\ mem.master_flat # None
  /\ mem.master_flat[1] # mem.master_flat[NPix]
  /\ IsFinite(mem.master_flat[1])
  /\ disk[OutPath].exists
  /\ Len(disk[OutPath].header.HISTORY) = 2

\* the exposure factors tried
Gains == {2, 3}

BrighterPath == PathOf("raw", "brighter.fits")

\* the filesystem with one more flat: the frame of flat_file with its
\* signal above the bias (above zero without a bias) multiplied by gain
WithBrighter(dsk, flat_file, master_bias, gain) ==
  LET data == List([p \in 1..NPix |-> Stored(dsk[flat_file], p)])
      g == [n |-> gain, d |-> 1]
      brighter ==
        IF master_bias # None
        THEN List([p \in 1..NPix |->
                     FAdd(master_bias[p], FMul(g, FSub(data[p], master_bias[p])))])
        ELSE List([p \in 1..NPix |-> FMul(g, data[p])])
  IN [p \in DOMAIN dsk \cup {BrighterPath} |->
        IF p = BrighterPath THEN FitsFile("float", brighter, dsk[flat_file].header)
        ELSE dsk[p]]

\* C17: the master flat does not depend on the exposure level of the
\* individual flats: with the bias-corrected signal of any one flat of the
\* list multiplied by a positive constant, create_master_flat returns the
\* same master flat.
C17_ExposureIndependent ==
  (ret.op = "create_master_flat" /\ ret.status = "ok") =>
    LET flat_files == ret.args.flat_files
        master_bias == ret.args.master_bias
    IN \A k \in DOMAIN flat_files, gain \in Gains :
         create_master_flat(WithBrighter(disk, flat_files[k], master_bias, gain),
                            [flat_files EXCEPT ![k] = BrighterPath],
                            master_bias, NoPath).value = ret.value

\* two flats over a master bias that is not zero, and a master flat with
\* finite, unequal pixels
C17_Witness ==
  /\ ret.op = "create_master_flat" /\ ret.status = "ok"
  /\ Len(ret.args.flat_files) = 2
  /\ ret.args.master_bias # None
  /\ \E p \in 1..NPix : ret.args.master_bias[p].n # 0
  /\ \A p \in 1..NPix : IsFinite(ret.value[p])
  /\ ret.value[1] # ret.value[NPix]

\* C18: in every state of the standardPlot widget the object aperture, the
\* inner sky circle and the outer sky circle have the same centre and the
\* same visibility, and the sky radii are 1.5 and 2 times the aperture
\* radius, whatever is typed in the x, y and radius boxes.
C18_AperturesConcentric ==
  ui.widget = "standardPlot" =>
    /\ ui.innerSky.x = ui.aperture.x /\ ui.outerSky.x = ui.aperture.x
    /\ ui.innerSky.y = ui.aperture.y /\ ui.outerSky.y = ui.aperture.y
    /\ ui.innerSky.visible = ui.aperture.visible
    /\ ui.outerSky.visible = ui.aperture.visible
    /\ ui.innerSky.radius = FMul(ui.aperture.radius, [n |-> 3, d |-> 2])
    /\ ui.outerSky.radius = FMul(ui.aperture.radius, [n |-> 2, d |-> 1])

\* C19: in every state of the clusterPlot widget exactly one of the V-band
\* and I-band images is visible, it is the one named by the filter selector,
\* and the visible colour bar is the one of the visible image.
C19_OneFilterVisible ==
  ui.widget = "clusterPlot" =>
    /\ ui.rV.visible # ui.rI.visible
    /\ ui.rV.visible <=> ui.im.value = "V"
    /\ ui.rI.visible <=> ui.im.value = "I"
    /\ \A i \in DOMAIN ui.right : ui.right[i].visible = ui[ui.right[i].image].visible

\* the filter was changed to I and back to V, and the slider moved since
C19_Witness ==
  /\ ui.widget = "clusterPlot"
  /\ ui.im.value = "V" /\ ui.rV.visible /\ ~ui.rI.visible
  /\ ui.cbim.step = 10
  /\ ui.cbim.value # <<Fin(15, 1), Fin(35, 1)>>

\* an event in grid k
EventIn(k) ==
  \/ SelectFilterIn(k)
  \/ MoveSliderIn(k)
  \/ TypeRadiusIn(k)
  \/ ClickRadiusIn(k)

\* C20: an event in one clusterPlotApertures grid widget (filter change,
\* slider, 'Update radius') changes only the renderers,
\* circles and mappers created for that widget: every other grid widget is
\* left as it was.
C20_CallbacksActOnOwnGrid ==
  [][ui.widget = "clusterPlotApertures" =>
       \A k \in DOMAIN ui.grids :
         EventIn(k) =>
           \A g \in DOMAIN ui.grids \ {k} : ui'.grids[g] = ui.grids[g]]_vars

\* the coordinates held by a log: its lines without the empty line after the
\* trailing separator
LogEntries(text) ==
  LET lines == Split(text, LogSeparator)
  IN SubSeq(lines, 1, Len(lines) - 1)

\* C21: after any sequence of double-taps the x log and the y log hold the
\* same number of coordinates, the k-th entry of each comes from the same
\* double-tap, in event order, and each log holds the most recent taps
\* only: at most 34 entries, 35 lines with the one after the last separator.
C21_DoubleTapLog ==
  ui.widget = "clusterPlot" =>
    LET xs == LogEntries(ui.divX.text)
        ys == LogEntries(ui.divY.text)
        kept == IF ui.taps < 34 THEN ui.taps ELSE 34
    IN /\ Len(xs) = kept /\ Len(ys) = kept
       /\ Len(Split(ui.divX.text, LogSeparator)) <= 35
       /\ Len(Split(ui.divY.text, LogSeparator)) <= 35
       /\ \A j \in 1..kept :
            /\ CanParse(xs[j]) /\ CanParse(ys[j])
            /\ ParseFloat(xs[j]) = TapPoint(ui.taps - kept + j).x
            /\ ParseFloat(ys[j]) = TapPoint(ui.taps - kept + j).y

\* more double-taps than a log holds: the oldest have been dropped
C21_Witness ==
  /\ ui.widget = "clusterPlot"
  /\ ui.taps > 35
  /\ Len(LogEntries(ui.divX.text)) = 34
  /\ ParseFloat(LogEntries(ui.divX.text)[1]) # TapPoint(1).x

====
